---- MODULE Spec2Model ----
(***************************************************************************)
(* A model of src/bot.py: the MarkdownV2 escaper, the response renderer,   *)
(* the Gemini analysis requester and the handle_image conversation         *)
(* handler.                                                                *)
(*                                                                         *)
(* Python strings are sequences of tokens (one token per character that    *)
(* matters, or one token for a run of ordinary characters).  Dynamically   *)
(* typed Python / JSON values are records tagged by their type in field t. *)
(***************************************************************************)
EXTENDS Naturals, Sequences, FiniteSets

VARIABLES
  \* the pure functions applied on their own: the input, the position, the
  \* result and the result of a second application
  fn_in, fn_pc, fn_out, fn_out2,
  \* handle_image: the tasks the application has dispatched and, per task,
  \* the inbound update, the position in the coroutine and its locals
  tasks, update, pc, sent_message, file_bytes, analysis_result, final_text,
  keyboard, exc,
  \* the chat platform: the messages of each chat, the next message id, and
  \* per task the calls made on the bot and the model client, in order
  messages, next_id, calls

fnVars == <<fn_in, fn_pc, fn_out, fn_out2>>

handlerVars ==
  <<tasks, update, pc, sent_message, file_bytes, analysis_result, final_text,
    keyboard, exc, messages, next_id, calls>>

vars == <<fnVars, handlerVars>>

\* ------------------------------------------------------------------------
\* Bounds of the model
\* ------------------------------------------------------------------------

\* longest input string given to escape_markdown_v2 on its own
MaxEscLen == 2

\* longest free text (message, error) of an analysis result given to
\* render_response on its own
MaxTextLen == 2

\* ------------------------------------------------------------------------
\* Python / JSON values
\* ------------------------------------------------------------------------

None == [t |-> "none"]

Str(s) == [t |-> "str", v |-> s]

Int(n) == [t |-> "int", v |-> n]

\* a float with one digit before and one after the point
Float(i, f) == [t |-> "float", i |-> i, f |-> f]

Bool(b) == [t |-> "bool", v |-> b]

List(s) == [t |-> "list", v |-> s]

\* a dict is a function from its keys to values
Dict(f) == [t |-> "dict", v |-> f]

EmptyDict == Dict([k \in {} |-> None])

IsStr(x) == x.t = "str"

IsDict(x) == x.t = "dict"

\* bool(x): Python truthiness
Truthy(x) ==
  CASE x.t = "none" -> FALSE
    [] x.t = "str" -> x.v # <<>>
    [] x.t = "int" -> x.v # 0
    [] x.t = "float" -> ~(x.i = 0 /\ x.f = 0)
    [] x.t = "bool" -> x.v
    [] x.t = "list" -> x.v # <<>>
    [] x.t = "dict" -> DOMAIN x.v # {}

\* d.get(k) of a dict d
Get(d, k) == IF k \in DOMAIN d.v THEN d.v[k] ELSE None

Digit == <<"0", "1", "2", "3", "4", "5", "6", "7", "8", "9">>

\* format(x) as an f-string field {x} does it, for the scalar values
Format(x) ==
  CASE x.t = "none" -> <<"None">>
    [] x.t = "str" -> x.v
    [] x.t = "int" -> <<Digit[x.v + 1]>>
    [] x.t = "float" -> <<Digit[x.i + 1], ".", Digit[x.f + 1]>>
    [] x.t = "bool" -> IF x.v THEN <<"True">> ELSE <<"False">>

\* all sequences over S of length at most n
RECURSIVE SeqsUpTo(_, _)
SeqsUpTo(S, n) ==
  IF n = 0 THEN {<<>>}
  ELSE LET shorter == SeqsUpTo(S, n - 1)
       IN shorter \cup {Append(s, c) : s \in shorter, c \in S}

\* ------------------------------------------------------------------------
\* escape_markdown_v2
\* ------------------------------------------------------------------------

\* the inline-code delimiter character (U+0060, the grave accent)
Backtick == "<backtick>"

\* escape_chars: the 18 characters _ * [ ] ( ) ~ <backtick> > # + - = | { } . !
escape_chars ==
  {"_", "*", "[", "]", "(", ")", "~", Backtick, ">", "#", "+", "-", "=", "|",
   "{", "}", ".", "!"}

\* a mutant of EscapeRepl: the matched character is kept behind one backslash
EscapeRepl_Group(c) == <<"\\", c>>

\* What re.sub puts in the place of a matched character c.  The replacement
\* template is the raw string r'\\\\1': the regular-expression engine reads
\* it as two escaped backslashes followed by the character 1, not as a
\* reference to group 1, so the matched character itself is dropped.
EscapeRepl(c) == <<"\\", "\\", "1">>

\* re.sub(f'([{re.escape(escape_chars)}])', repl, s): every character of the
\* class is replaced, every other one is copied, left to right
RECURSIVE ReSubEscape(_)
ReSubEscape(s) ==
  IF s = <<>> THEN <<>>
  ELSE (IF Head(s) \in escape_chars THEN EscapeRepl(Head(s)) ELSE <<Head(s)>>)
       \o ReSubEscape(Tail(s))

escape_markdown_v2(text) == IF ~IsStr(text) THEN <<>> ELSE ReSubEscape(text.v)

\* ------------------------------------------------------------------------
\* render_response
\* ------------------------------------------------------------------------

IconMessage == "<crystal ball>"

IconError == "<exclamation>"

IconGps == "<globe>"

IconAddress == "<flag>"

IconDate == "<camera>"

IconPromo == "<money bag>"

\* a mutant of Join: the parts are joined by one newline
RECURSIVE Join_OneNewline(_)
Join_OneNewline(parts) ==
  IF parts = <<>> THEN <<>>
  ELSE IF Len(parts) = 1 THEN parts[1]
  ELSE parts[1] \o <<"\n">> \o Join_OneNewline(Tail(parts))

\* '\n\n'.join(parts)
RECURSIVE Join(_)
Join(parts) ==
  IF parts = <<>> THEN <<>>
  ELSE IF Len(parts) = 1 THEN parts[1]
  ELSE parts[1] \o <<"\n", "\n">> \o Join(Tail(parts))

\* if data.get('message'): the message part
MessageParts(data) ==
  IF Truthy(Get(data, "message"))
  THEN << <<IconMessage, " ">> \o escape_markdown_v2(data.v["message"]) >>
  ELSE <<>>

\* if data.get('error'): the error part
ErrorParts(data) ==
  IF Truthy(Get(data, "error"))
  THEN << <<IconError, " ">> \o escape_markdown_v2(data.v["error"]) >>
  ELSE <<>>

\* the test of the gps branch: data.get('gps') and isinstance(data['gps'], dict)
GpsBranch(data) == Truthy(Get(data, "gps")) /\ IsDict(Get(data, "gps"))

\* the coordinates part: both coordinates are formatted whatever they are
CoordinatesPart(data) ==
  <<IconGps, " ", Backtick>> \o Format(Get(data.v["gps"], "latitude")) \o <<" ">>
    \o Format(Get(data.v["gps"], "longitude")) \o <<Backtick>>

AddressParts(data) ==
  IF Truthy(Get(data, "address"))
  THEN << <<IconAddress, " ", Backtick>> \o Format(data.v["address"]) \o <<Backtick>> >>
  ELSE <<>>

DateParts(data) ==
  IF Truthy(Get(data, "date"))
  THEN << <<IconDate, " ", Backtick>> \o Format(data.v["date"]) \o <<Backtick>> >>
  ELSE <<>>

PromoParts(data) ==
  IF Truthy(Get(data, "promo"))
  THEN << <<IconPromo, " ", Backtick>> \o Format(data.v["promo"]) \o <<Backtick>> >>
  ELSE <<>>

\* a mutant of LocationParts: promo in an if of its own, not in the elif
LocationParts_PromoAlways(data) ==
  (IF GpsBranch(data)
   THEN <<CoordinatesPart(data)>> \o AddressParts(data) \o DateParts(data)
   ELSE <<>>) \o PromoParts(data)

\* a mutant of LocationParts: address and date outside the gps branch
LocationParts_AddressAlways(data) ==
  (IF GpsBranch(data) THEN <<CoordinatesPart(data)>> ELSE PromoParts(data))
    \o AddressParts(data) \o DateParts(data)

\* the if / elif on gps and promo
LocationParts(data) ==
  IF GpsBranch(data)
  THEN <<CoordinatesPart(data)>> \o AddressParts(data) \o DateParts(data)
  ELSE PromoParts(data)

\* response_parts at the end of render_response
response_parts(data) ==
  MessageParts(data) \o ErrorParts(data) \o LocationParts(data)

\* render_response(data) of a dict; data.get of anything else raises
\* AttributeError (see RenderRaises)
render_response(data) == Join(response_parts(data))

RenderRaises(data) == ~IsDict(data)

\* ------------------------------------------------------------------------
\* analyze_image_with_gemini
\* ------------------------------------------------------------------------

\* an exception: its class and str(e)
Exc(type, msg) == [type |-> type, msg |-> msg]

\* the exceptions an external call (Telegram, Gemini) can raise; str(e) may
\* be empty, and may hold reserved characters
Failures ==
  { Exc("TimedOut", <<"Timed out">>),
    Exc("NetworkError", <<"httpx", ".", "ConnectError">>),
    Exc("Exception", <<>>) }

\* the outcomes of an external call: it returns (None) or raises
Outcomes == {None} \cup Failures

\* tokens of the text of a model completion: literal characters, the
\* opening fence (three grave accents, json, newline) and the text of one
\* JSON document, which denotes the value v
Lit(c) == [k |-> "lit", v |-> [c |-> c]]

FenceOpen == [k |-> "fence", v |-> [c |-> "json"]]

FenceClose == Lit("<three backticks>")

Json(x) == [k |-> "json", v |-> x]

Whitespace == {Lit("\n"), Lit(" ")}

\* re.sub(r'<fence>json\n(.*?)', r'\\1', text, flags=re.DOTALL): the lazy
\* group matches the empty string, and the template r'\\1' is an escaped
\* backslash followed by the character 1, so every opening fence is replaced
\* by these two characters; nothing else is touched
RECURSIVE CleanResponse(_)
CleanResponse(text) ==
  IF text = <<>> THEN <<>>
  ELSE (IF Head(text) = FenceOpen THEN <<Lit("\\"), Lit("1")>>
        ELSE <<Head(text)>>) \o CleanResponse(Tail(text))

RECURSIVE LStrip(_)
LStrip(text) ==
  IF text # <<>> /\ Head(text) \in Whitespace THEN LStrip(Tail(text)) ELSE text

RECURSIVE RStrip(_)
RStrip(text) ==
  IF text # <<>> /\ text[Len(text)] \in Whitespace
  THEN RStrip(SubSeq(text, 1, Len(text) - 1))
  ELSE text

\* json.loads(text): one JSON document with white space around it, or
\* JSONDecodeError
json_loads(text) ==
  LET body == RStrip(LStrip(text))
  IN IF body = <<>> \/ body[1].k # "json"
     THEN [ok |-> FALSE,
           e |-> Exc("JSONDecodeError",
                     <<"Expecting value: line 1 column 1 ", "(", "char 0", ")">>)]
     ELSE IF Len(body) > 1
     THEN [ok |-> FALSE,
           e |-> Exc("JSONDecodeError",
                     <<"Extra data: line 2 column 1 ", "(", "char 9", ")">>)]
     ELSE [ok |-> TRUE, v |-> body[1].v]

\* the dict returned by the except clause
ErrorResult(e) ==
  Dict([error |-> Str(<<"Ne udalos obrabotat izobrazhenie", ".", " Oshibka: ">>
                        \o e.msg)])

\* a mutant of ExceptHandler: only JSONDecodeError is caught
ExceptHandler_OnlyJson(e) ==
  IF e.type = "JSONDecodeError"
  THEN [raised |-> FALSE, value |-> ErrorResult(e), logged |-> e]
  ELSE [raised |-> TRUE, value |-> None, logged |-> e]

\* except Exception as e: every exception raised in the try block is
\* caught, logged (logger.error) and turned into the error dict
ExceptHandler(e) == [raised |-> FALSE, value |-> ErrorResult(e), logged |-> e]

\* the bytes a download can give
ImageBytes == {"jpeg", "not an image"}

\* Image.open(io.BytesIO(image_bytes)) raises on bytes that are no image
ImageOpenRaises(image_bytes) == image_bytes # "jpeg"

UnidentifiedImageError ==
  Exc("UnidentifiedImageError", <<"cannot identify image file">>)

\* analyze_image_with_gemini once generate_content_async has returned or
\* raised: o.e is the exception raised (None: it returned), o.text is
\* response.text
AnalyzeAfterGenerate(o) ==
  IF o.e # None THEN ExceptHandler(o.e)
  ELSE LET j == json_loads(CleanResponse(o.text))
       IN IF j.ok THEN [raised |-> FALSE, value |-> j.v, logged |-> None]
          ELSE ExceptHandler(j.e)

\* JSON documents the model can answer with
ResponseBodies ==
  { None, EmptyDict, List(<<>>), List(<<Int(1)>>), Str(<<"ok">>), Int(0),
    Bool(TRUE),
    Dict([message |-> Str(<<"ok">>),
          gps |-> Dict([latitude |-> Float(5, 7), longitude |-> Float(3, 6)])]),
    Dict([message |-> Str(<<"ok", "!">>), promo |-> Str(<<"PROMO123">>),
          gps |-> Dict([latitude |-> Float(5, 7), longitude |-> Float(3, 6)]),
          address |-> Str(<<"Main St">>),
          date |-> Str(<<"2025", "-", "01">>), error |-> None]),
    Dict([gps |-> Dict([latitude |-> Float(5, 7)])]),
    Dict([gps |-> Dict([latitude |-> None, longitude |-> None])]),
    Dict([gps |-> Dict([latitude |-> Float(0, 0), longitude |-> Float(0, 0)])]),
    Dict([gps |-> Str(<<"55", ".", "7", " ", "37", ".", "6">>)]),
    Dict([gps |-> EmptyDict, promo |-> Str(<<"PROMO123">>)]),
    Dict([promo |-> Str(<<"PROMO123">>), message |-> Str(<<"Got a promo", "!">>)]),
    Dict([error |-> Str(<<"Something went wrong">>)]),
    Dict([message |-> None, error |-> None, gps |-> None, address |-> None,
          date |-> None, promo |-> None]),
    Dict([message |-> Str(<<>>), address |-> Str(<<"Main St">>)]) }

\* the completions: a document bare, fenced with and without the closing
\* fence, with white space around it; text that is no JSON; nothing
GeminiResponses ==
  UNION { { <<Json(b)>>,
            <<Lit(" "), Json(b), Lit("\n")>>,
            <<FenceOpen, Json(b), Lit("\n"), FenceClose>>,
            <<FenceOpen, Json(b)>> } : b \in ResponseBodies }
    \cup { <<Lit("not json at all")>>, <<>> }

\* what generate_content_async can do
GeminiOutcomes ==
  {[e |-> f, text |-> <<>>] : f \in Failures}
    \cup {[e |-> None, text |-> r] : r \in GeminiResponses}

\* ------------------------------------------------------------------------
\* handle_image
\* ------------------------------------------------------------------------

Chats == {1001, 1002}

\* ids of the inbound messages
InboundIds == {7, 8}

\* update.message.photo: the sizes of the photo (their file ids), none for a
\* message without a photo
Photos == {<<>>, <<"small size", "large size">>}

Updates == [chat_id : Chats, message_id : InboundIds, photo : Photos]

\* the literal text of the provisional acknowledgment, escaped by hand
AckText == <<"<eyes>", " Smotryu", "\\", ".", "\\", ".", "\\", ".">>

PleaseSendText == <<"Pozhaluysta, otpravte izobrazhenie", ".">>

NoAnswerText ==
  escape_markdown_v2(Str(<<"Ne udalos poluchit otvet ot neyroseti", ".",
                            " Poprobuyte pozzhe", ".">>))

FallbackText == escape_markdown_v2(Str(<<"Ne udalos raspoznat dannye", ".">>))

InternalErrorPrefix == <<"Proizoshla vnutrennyaya oshibka: ">>

\* a mutant of ErrorText: a fixed text without the description
ErrorText_Generic(e) == escape_markdown_v2(Str(InternalErrorPrefix))

\* escape_markdown_v2(f"<prefix>{e}")
ErrorText(e) == escape_markdown_v2(Str(InternalErrorPrefix \o e.msg))

InlineKeyboardButton(text, url) == [text |-> text, url |-> url]

InlineKeyboardMarkup(rows) == [t |-> "markup", rows |-> rows]

\* the three map links, in one row
MapKeyboard(lat, lon) ==
  InlineKeyboardMarkup(<< <<
    InlineKeyboardButton("Yandex",
      <<"https://yandex.ru/maps/?rtext=~">> \o Format(lat) \o <<",">>
        \o Format(lon) \o <<"&z=16">>),
    InlineKeyboardButton("2Gis",
      <<"https://2gis.ru/geo/">> \o Format(lon) \o <<",">> \o Format(lat)),
    InlineKeyboardButton("Google",
      <<"https://www.google.com/maps?q=">> \o Format(lat) \o <<",">>
        \o Format(lon) \o <<"&z=16">>) >> >>)

\* a mutant of BuildKeyboard: the keyboard is built for every dict
BuildKeyboard_Always(result) ==
  LET gps == IF IsDict(Get(result, "gps")) THEN Get(result, "gps") ELSE EmptyDict
  IN MapKeyboard(Get(gps, "latitude"), Get(gps, "longitude"))

\* a mutant of BuildKeyboard: the coordinates are not checked for None
BuildKeyboard_AnyGpsDict(result) ==
  IF Truthy(Get(result, "gps")) /\ IsDict(Get(result, "gps"))
  THEN MapKeyboard(Get(Get(result, "gps"), "latitude"),
                   Get(Get(result, "gps"), "longitude"))
  ELSE None

\* keyboard = None; if analysis_result.get('gps') is a dict whose latitude
\* and longitude are both not None: the markup
BuildKeyboard(result) ==
  IF Truthy(Get(result, "gps")) /\ IsDict(Get(result, "gps"))
  THEN LET lat == Get(Get(result, "gps"), "latitude")
           lon == Get(Get(result, "gps"), "longitude")
       IN IF lat # None /\ lon # None THEN MapKeyboard(lat, lon) ELSE None
  ELSE None

\* one call on the bot, the file or the model client, as a mock records it:
\* the call site, the arguments, whether it returned, and what it returned
Call(op, site, chat_id, message_id, text, reply_markup, parse_mode, ok, result) ==
  [op |-> op, site |-> site, chat_id |-> chat_id, message_id |-> message_id,
   text |-> text, reply_markup |-> reply_markup, parse_mode |-> parse_mode,
   ok |-> ok, result |-> result]

\* a message of a chat: who sent it (0: the user, t: the bot in task t)
Message(by, text, reply_markup, reply_to) ==
  [by |-> by, text |-> text, reply_markup |-> reply_markup, reply_to |-> reply_to]

Put(f, k, x) == [j \in DOMAIN f \cup {k} |-> IF j = k THEN x ELSE f[j]]

\* the platform's effect of editMessageText: text and markup are replaced
Edited(msgs, k, text, reply_markup) ==
  IF k \in DOMAIN msgs
  THEN [msgs EXCEPT ![k] = [@ EXCEPT !.text = text, !.reply_markup = reply_markup]]
  ELSE msgs

MaxOf(S) == CHOOSE x \in S : \A y \in S : y <= x

InitTasks(T) ==
  /\ tasks = T
  /\ update \in [T -> Updates]
  /\ \A t1, t2 \in T :
       t1 # t2 => <<update[t1].chat_id, update[t1].message_id>>
                    # <<update[t2].chat_id, update[t2].message_id>>
  /\ pc = [t \in T |-> "start"]
  /\ sent_message = [t \in T |-> 0]
  /\ file_bytes = [t \in T |-> ""]
  /\ analysis_result = [t \in T |-> None]
  /\ final_text = [t \in T |-> <<>>]
  /\ keyboard = [t \in T |-> None]
  /\ exc = [t \in T |-> None]
  /\ messages =
       [k \in {<<update[t].chat_id, update[t].message_id>> : t \in T} |->
          Message(0, <<"<photo>">>, None, 0)]
  /\ next_id = [c \in Chats |-> MaxOf(InboundIds) + 1]
  /\ calls = [t \in T |-> <<>>]
  /\ fn_in = None /\ fn_pc = "off" /\ fn_out = <<>> /\ fn_out2 = <<>>

\* one update is dispatched to handle_image
Init == InitTasks({1})

Log(t, call) == calls' = [calls EXCEPT ![t] = Append(@, call)]

Goto(t, label) == pc' = [pc EXCEPT ![t] = label]

\* a mutant of Caught: the failed call is tried again
Caught_Retry(t, e) == exc' = [exc EXCEPT ![t] = e] /\ UNCHANGED pc

\* the exception e leaves the try block: control goes to the except clause
Caught(t, e) == exc' = [exc EXCEPT ![t] = e] /\ Goto(t, "except")

\* the exception e leaves handle_image
Propagates(t, e) == exc' = [exc EXCEPT ![t] = e] /\ Goto(t, "raised")

\* if not update.message.photo: reply_text(...); return
ReplyNoPhoto(t) ==
  /\ pc[t] = "start" /\ update[t].photo = <<>>
  /\ \E e \in Outcomes :
       LET chat == update[t].chat_id
           id == next_id[chat]
       IN /\ Log(t, Call("reply_text", "no photo", chat, 0, PleaseSendText,
                         None, "", e = None, IF e = None THEN id ELSE 0))
          /\ IF e = None
             THEN /\ messages' = Put(messages, <<chat, id>>,
                                     Message(t, PleaseSendText, None, 0))
                  /\ next_id' = [next_id EXCEPT ![chat] = id + 1]
                  /\ Goto(t, "returned")
                  /\ exc' = exc
             ELSE /\ Propagates(t, e)
                  /\ UNCHANGED <<messages, next_id>>
  /\ UNCHANGED <<fnVars, tasks, update, sent_message, file_bytes,
                 analysis_result, final_text, keyboard>>

\* sent_message = await update.message.reply_text(ack, reply_to_message_id=...)
\* outside the try block
SendAck(t) ==
  /\ pc[t] = "start" /\ update[t].photo # <<>>
  /\ \E e \in Outcomes :
       LET chat == update[t].chat_id
           id == next_id[chat]
       IN /\ Log(t, Call("reply_text", "ack", chat, update[t].message_id,
                         AckText, None, "MarkdownV2", e = None,
                         IF e = None THEN id ELSE 0))
          /\ IF e = None
             THEN /\ messages' = Put(messages, <<chat, id>>,
                                     Message(t, AckText, None, update[t].message_id))
                  /\ next_id' = [next_id EXCEPT ![chat] = id + 1]
                  /\ sent_message' = [sent_message EXCEPT ![t] = id]
                  /\ Goto(t, "get_file")
                  /\ exc' = exc
             ELSE /\ Propagates(t, e)
                  /\ UNCHANGED <<messages, next_id, sent_message>>
  /\ UNCHANGED <<fnVars, tasks, update, file_bytes, analysis_result,
                 final_text, keyboard>>

\* photo_file = await context.bot.get_file(update.message.photo[-1].file_id)
GetFile(t) ==
  /\ pc[t] = "get_file"
  /\ \E e \in Outcomes :
       /\ Log(t, Call("get_file", "get_file", 0, 0,
                      <<update[t].photo[Len(update[t].photo)]>>, None, "",
                      e = None, 0))
       /\ IF e = None THEN Goto(t, "download") /\ exc' = exc ELSE Caught(t, e)
  /\ UNCHANGED <<fnVars, tasks, update, sent_message, file_bytes,
                 analysis_result, final_text, keyboard, messages, next_id>>

\* file_bytes = await photo_file.download_as_bytearray()
Download(t) ==
  /\ pc[t] = "download"
  /\ \E e \in Outcomes, b \in ImageBytes :
       /\ Log(t, Call("download_as_bytearray", "download", 0, 0, <<>>, None,
                      "", e = None, 0))
       /\ IF e = None
          THEN /\ file_bytes' = [file_bytes EXCEPT ![t] = b]
               /\ Goto(t, "analyze")
               /\ exc' = exc
          ELSE /\ Caught(t, e)
               /\ file_bytes' = file_bytes
  /\ UNCHANGED <<fnVars, tasks, update, sent_message, analysis_result,
                 final_text, keyboard, messages, next_id>>

\* what handle_image does with the outcome of analyze_image_with_gemini
Analyzed(t, out) ==
  IF out.raised
  THEN Caught(t, out.logged) /\ analysis_result' = analysis_result
  ELSE /\ analysis_result' = [analysis_result EXCEPT ![t] = out.value]
       /\ Goto(t, "analyzed")
       /\ exc' = exc

\* analyze_image_with_gemini(bytes(file_bytes)) is called and runs up to its
\* await: the model object is made and the image is opened
AnalyzeOpen(t) ==
  /\ pc[t] = "analyze"
  /\ Log(t, Call("analyze_image_with_gemini", "analyze", 0, 0, <<>>, None,
                 "", TRUE, 0))
  /\ IF ImageOpenRaises(file_bytes[t])
     THEN Analyzed(t, ExceptHandler(UnidentifiedImageError))
     ELSE Goto(t, "generate") /\ UNCHANGED <<analysis_result, exc>>
  /\ UNCHANGED <<fnVars, tasks, update, sent_message, file_bytes, final_text,
                 keyboard, messages, next_id>>

\* await model.generate_content_async(...) returns or raises, and
\* analyze_image_with_gemini runs to its return
Generate(t) ==
  /\ pc[t] = "generate"
  /\ \E o \in GeminiOutcomes :
       /\ Log(t, Call("generate_content_async", "generate", 0, 0, <<>>,
                      None, "", o.e = None, 0))
       /\ Analyzed(t, AnalyzeAfterGenerate(o))
  /\ UNCHANGED <<fnVars, tasks, update, sent_message, file_bytes, final_text,
                 keyboard, messages, next_id>>

\* from the return of the analysis to the next await: the test of the
\* result, render_response and the keyboard
Render(t) ==
  /\ pc[t] = "analyzed"
  /\ IF ~Truthy(analysis_result[t])
     THEN /\ final_text' = [final_text EXCEPT ![t] = NoAnswerText]
          /\ Goto(t, "edit no answer")
          /\ UNCHANGED <<keyboard, exc>>
     ELSE IF RenderRaises(analysis_result[t])
     THEN /\ Caught(t, Exc("AttributeError", <<"object has no attribute 'get'">>))
          /\ UNCHANGED <<final_text, keyboard>>
     ELSE /\ final_text' =
               [final_text EXCEPT ![t] = render_response(analysis_result[t])]
          /\ keyboard' = [keyboard EXCEPT ![t] = BuildKeyboard(analysis_result[t])]
          /\ Goto(t, "edit")
          /\ exc' = exc
  /\ UNCHANGED <<fnVars, tasks, update, sent_message, file_bytes,
                 analysis_result, messages, next_id, calls>>

\* a mutant of EditTarget: the inbound message is edited
EditTarget_Inbound(t) == update[t].message_id

\* a mutant of EditTarget: sent_message is one variable of the module, which
\* holds the latest acknowledgment of any task
EditTarget_Shared(t) == MaxOf({sent_message[u] : u \in tasks})

\* message_id=sent_message.message_id
EditTarget(t) == sent_message[t]

\* await context.bot.edit_message_text(chat_id=chat_id, message_id=..., ...)
\* at the given call site; the platform applies it or the call raises e
EditMessageText(t, site, text, reply_markup, e) ==
  /\ Log(t, Call("edit_message_text", site, update[t].chat_id, EditTarget(t),
                 text, reply_markup, "MarkdownV2", e = None, 0))
  /\ messages' =
       IF e = None
       THEN Edited(messages, <<update[t].chat_id, EditTarget(t)>>, text, reply_markup)
       ELSE messages

\* the edit of the branch "if not analysis_result", then return
EditNoAnswer(t) ==
  /\ pc[t] = "edit no answer"
  /\ \E e \in Outcomes :
       /\ EditMessageText(t, "no answer", final_text[t], None, e)
       /\ IF e = None THEN Goto(t, "returned") /\ exc' = exc ELSE Caught(t, e)
  /\ UNCHANGED <<fnVars, tasks, update, sent_message, file_bytes,
                 analysis_result, final_text, keyboard, next_id>>

\* a mutant of FinalText: the rendered text is sent as it is
FinalText_NoFallback(t) == final_text[t]

\* text=final_text or escape_markdown_v2(<could not recognize>)
FinalText(t) == IF final_text[t] # <<>> THEN final_text[t] ELSE FallbackText

\* a mutant of Edit: the final edit stands outside the try block
Edit_NoCatch(t) ==
  /\ pc[t] = "edit"
  /\ \E e \in Outcomes :
       /\ EditMessageText(t, "final", FinalText(t), keyboard[t], e)
       /\ IF e = None THEN Goto(t, "returned") /\ exc' = exc ELSE Propagates(t, e)
  /\ UNCHANGED <<fnVars, tasks, update, sent_message, file_bytes,
                 analysis_result, final_text, keyboard, next_id>>

\* the final edit, with the keyboard
Edit(t) ==
  /\ pc[t] = "edit"
  /\ \E e \in Outcomes :
       /\ EditMessageText(t, "final", FinalText(t), keyboard[t], e)
       /\ IF e = None THEN Goto(t, "returned") /\ exc' = exc ELSE Caught(t, e)
  /\ UNCHANGED <<fnVars, tasks, update, sent_message, file_bytes,
                 analysis_result, final_text, keyboard, next_id>>

\* a mutant of Except: a failure of the corrective edit is swallowed
Except_Swallow(t) ==
  /\ pc[t] = "except"
  /\ \E e \in Outcomes :
       /\ EditMessageText(t, "corrective", ErrorText(exc[t]), None, e)
       /\ Goto(t, "returned") /\ exc' = exc
  /\ UNCHANGED <<fnVars, tasks, update, sent_message, file_bytes,
                 analysis_result, final_text, keyboard, next_id>>

\* except Exception as e: the error is logged and the provisional message
\* is edited to the internal-error text; this edit is not guarded, so an
\* exception it raises leaves handle_image
Except(t) ==
  /\ pc[t] = "except"
  /\ \E e \in Outcomes :
       /\ EditMessageText(t, "corrective", ErrorText(exc[t]), None, e)
       /\ IF e = None THEN Goto(t, "returned") /\ exc' = exc ELSE Propagates(t, e)
  /\ UNCHANGED <<fnVars, tasks, update, sent_message, file_bytes,
                 analysis_result, final_text, keyboard, next_id>>

\* the event loop runs one step of one task
Next ==
  \/ \E t \in tasks : ReplyNoPhoto(t)
  \/ \E t \in tasks : SendAck(t)
  \/ \E t \in tasks : GetFile(t)
  \/ \E t \in tasks : Download(t)
  \/ \E t \in tasks : AnalyzeOpen(t)
  \/ \E t \in tasks : Generate(t)
  \/ \E t \in tasks : Render(t)
  \/ \E t \in tasks : EditNoAnswer(t)
  \/ \E t \in tasks : Edit(t)
  \/ \E t \in tasks : Except(t)

Spec == Init /\ [][Next]_vars

\* every external call completes or fails, and the event loop resumes the
\* task that awaits it: a step that can be taken is taken
SpecLive == Init /\ [][Next]_vars /\ WF_vars(Next)

\* two updates are dispatched, each to a handle_image task of its own: the
\* first holds a photo; the second comes from the same chat or from another
\* one, with or without a photo
InitConc ==
  /\ InitTasks({1, 2})
  /\ update[1] = [chat_id |-> 1001, message_id |-> 7,
                  photo |-> <<"small size", "large size">>]

\* the event loop interleaves the tasks at their awaits
SpecConc == InitConc /\ [][Next]_vars

\* ------------------------------------------------------------------------
\* The pure functions on their own
\* ------------------------------------------------------------------------

\* no handle_image task exists
NoTasks ==
  /\ tasks = {}
  /\ update = <<>> /\ pc = <<>> /\ sent_message = <<>> /\ file_bytes = <<>>
  /\ analysis_result = <<>> /\ final_text = <<>> /\ keyboard = <<>>
  /\ exc = <<>> /\ messages = <<>> /\ next_id = <<>> /\ calls = <<>>

\* characters of the inputs of escape_markdown_v2: the reserved ones, the
\* backslash and two ordinary ones
EscAlphabet == escape_chars \cup {"\\", "a", "1"}

EscapeInputs ==
  {None, Int(5)} \cup {Str(s) : s \in SeqsUpTo(EscAlphabet, MaxEscLen)}

InitEscape ==
  /\ fn_in \in EscapeInputs
  /\ fn_pc = "escape" /\ fn_out = <<>> /\ fn_out2 = <<>>
  /\ NoTasks

\* escape_markdown_v2(fn_in)
EscapeOnce ==
  /\ fn_pc = "escape"
  /\ fn_out' = escape_markdown_v2(fn_in)
  /\ fn_pc' = "escaped"
  /\ UNCHANGED <<fn_in, fn_out2, handlerVars>>

\* escape_markdown_v2 applied to its own result
EscapeAgain ==
  /\ fn_pc = "escaped"
  /\ fn_out2' = escape_markdown_v2(Str(fn_out))
  /\ fn_pc' = "escaped twice"
  /\ UNCHANGED <<fn_in, fn_out, handlerVars>>

NextEscape == EscapeOnce \/ EscapeAgain

SpecEscape == InitEscape /\ [][NextEscape]_vars

InitAnalyze ==
  /\ fn_in \in [image_bytes : ImageBytes, gemini : GeminiOutcomes]
  /\ fn_pc = "analyze" /\ fn_out = <<>> /\ fn_out2 = <<>>
  /\ NoTasks

\* analyze_image_with_gemini(fn_in.image_bytes) up to its await
AnalyzeCallOpen ==
  /\ fn_pc = "analyze"
  /\ IF ImageOpenRaises(fn_in.image_bytes)
     THEN LET out == ExceptHandler(UnidentifiedImageError)
          IN /\ fn_out' = out
             /\ fn_pc' = IF out.raised THEN "analysis raised" ELSE "analysis returned"
     ELSE fn_pc' = "awaiting gemini" /\ fn_out' = fn_out
  /\ UNCHANGED <<fn_in, fn_out2, handlerVars>>

\* the model client returns or raises as fn_in.gemini says
AnalyzeCallGenerate ==
  /\ fn_pc = "awaiting gemini"
  /\ LET out == AnalyzeAfterGenerate(fn_in.gemini)
     IN /\ fn_out' = out
        /\ fn_pc' = IF out.raised THEN "analysis raised" ELSE "analysis returned"
  /\ UNCHANGED <<fn_in, fn_out2, handlerVars>>

NextAnalyze == AnalyzeCallOpen \/ AnalyzeCallGenerate

SpecAnalyze == InitAnalyze /\ [][NextAnalyze]_vars

\* marks a key the dict does not have, while a dict is being built
Absent == [t |-> "absent"]

AnalysisKeys == {"message", "error", "gps", "address", "date", "promo"}

\* the dict with the given values, without the keys whose value is Absent
MkDict(f) == Dict([k \in {j \in DOMAIN f : f[j] # Absent} |-> f[k]])

\* free texts: ordinary and reserved characters
TextVals ==
  {Absent, None, Str(<<>>), Int(5)}
    \cup {Str(s) : s \in SeqsUpTo({"a", "."}, MaxTextLen) \ {<<>>}}

GpsVals ==
  { Absent, None, EmptyDict, Str(<<"55", ".", "7", " ", "37", ".", "6">>),
    Dict([latitude |-> Float(5, 7)]),
    Dict([latitude |-> Float(5, 7), longitude |-> None]),
    Dict([latitude |-> None, longitude |-> None]),
    Dict([latitude |-> Float(5, 7), longitude |-> Float(3, 6)]),
    Dict([latitude |-> Float(0, 0), longitude |-> Float(0, 0)]),
    Dict([latitude |-> Int(5), longitude |-> Str(<<"3", ".", "6">>)]) }

AddressVals == {Absent, Str(<<>>), Str(<<"Main St">>), Str(<<"a", Backtick>>)}

DateVals == {Absent, None, Str(<<"2025", "-", "01", "-", "01">>)}

PromoVals == {Absent, None, Str(<<"PROMO123">>), Str(<<Backtick, "!">>)}

AnalysisResults ==
  { MkDict([message |-> m, error |-> e, gps |-> g, address |-> a, date |-> d,
            promo |-> p]) :
      m \in TextVals, e \in TextVals, g \in GpsVals, a \in AddressVals,
      d \in DateVals, p \in PromoVals }

InitRender ==
  /\ fn_in \in AnalysisResults
  /\ fn_pc = "render" /\ fn_out = <<>> /\ fn_out2 = <<>>
  /\ NoTasks

\* render_response(fn_in)
RenderCall ==
  /\ fn_pc = "render"
  /\ fn_out' = render_response(fn_in)
  /\ fn_pc' = "rendered"
  /\ UNCHANGED <<fn_in, fn_out2, handlerVars>>

NextRender == RenderCall

SpecRender == InitRender /\ [][NextRender]_vars

\* ------------------------------------------------------------------------
\* Properties
\* ------------------------------------------------------------------------

\* the number of occurrences of token c in string s
Count(s, c) == Cardinality({i \in 1..Len(s) : s[i] = c})

\* string sub occurs in string s
Occurs(sub, s) ==
  \E i \in 0..(Len(s) - Len(sub)) : SubSeq(s, i + 1, i + Len(sub)) = sub

\* the calls of task t on edit_message_text and on reply_text, in order
Edits(t) == SelectSeq(calls[t], LAMBDA c : c.op = "edit_message_text")

Replies(t) == SelectSeq(calls[t], LAMBDA c : c.op = "reply_text")

\* no call task t has made raised
AllOk(t) == \A i \in 1..Len(calls[t]) : calls[t][i].ok

Terminal == {"returned", "raised"}

\* the messages the bot has created in task t
CreatedBy(t) == {k \in DOMAIN messages : messages[k].by = t}

\* C1: in a run on a photo in which no external call fails and the analysis
\* result is non-empty, handle_image returns after exactly one reply_text
\* (the acknowledgment, replying to the inbound message id) and exactly one
\* edit_message_text, whose message id is the one the acknowledgment
\* returned and whose chat id is the inbound one; the task has created one
\* message only, and it holds the text of the edit.
C1_OneAckOneEditOfIt ==
  \A t \in tasks :
    (update[t].photo # <<>> /\ AllOk(t)) =>
      /\ Len(Replies(t)) <= 1 /\ Len(Edits(t)) <= 1
      /\ pc[t] # "raised"
      /\ (pc[t] = "returned" /\ Truthy(analysis_result[t])) =>
           /\ Len(Replies(t)) = 1
           /\ Replies(t)[1].site = "ack"
           /\ Replies(t)[1].message_id = update[t].message_id
           /\ Len(Edits(t)) = 1
           /\ Edits(t)[1].message_id = Replies(t)[1].result
           /\ Edits(t)[1].chat_id = update[t].chat_id
           /\ CreatedBy(t) = {<<update[t].chat_id, Replies(t)[1].result>>}
           /\ messages[<<update[t].chat_id, Replies(t)[1].result>>].text
                = Edits(t)[1].text

\* a run without any failure has returned after the final edit
C1_Witness ==
  /\ pc[1] = "returned" /\ update[1].photo # <<>> /\ AllOk(1)
  /\ Truthy(analysis_result[1])
  /\ Len(Edits(1)) = 1 /\ Edits(1)[1].site = "final"

\* the model client has raised in task t, and every other call has returned
ModelRaisedOnly(t) ==
  /\ \E i \in 1..Len(calls[t]) :
       calls[t][i].op = "generate_content_async" /\ ~calls[t][i].ok
  /\ \A i \in 1..Len(calls[t]) :
       calls[t][i].op # "generate_content_async" => calls[t][i].ok

\* C2: when the model client raises and message delivery works,
\* handle_image goes on to render and edit, never raises, and returns after
\* exactly one edit_message_text, whose text is non-empty and which carries
\* no reply_markup.
C2_ModelFailureOneEditNoControls ==
  \A t \in tasks :
    ModelRaisedOnly(t) =>
      /\ pc[t] \in {"analyzed", "edit", "returned"}
      /\ Len(Edits(t)) = (IF pc[t] = "returned" THEN 1 ELSE 0)
      /\ \A i \in 1..Len(Edits(t)) :
           /\ Edits(t)[i].text # <<>>
           /\ Edits(t)[i].reply_markup = None
           /\ Edits(t)[i].message_id = sent_message[t]

\* the model client has raised and handle_image has returned after its edit
C2_Witness ==
  /\ ModelRaisedOnly(1) /\ pc[1] = "returned"
  /\ Len(Edits(1)) = 1 /\ Edits(1)[1].site = "final"

\* the final edit of task t (either branch) has raised
FinalEditFailed(t) ==
  \E i \in 1..Len(Edits(t)) :
    Edits(t)[i].site \in {"final", "no answer"} /\ ~Edits(t)[i].ok

\* C3 as stated: after a failure of the final edit there is exactly one
\* corrective edit with the internal-error text, and no exception leaves
\* handle_image, also when the corrective edit fails.
C3_CorrectiveFailureDropped ==
  \A t \in tasks :
    FinalEditFailed(t) =>
      /\ Len(Edits(t)) <= 2
      /\ pc[t] # "raised"

\* C3 as amended: after a failure of the final edit there is exactly one
\* corrective edit, of the provisional message, with the internal-error text
\* and no controls, and no further edit; handle_image returns when the
\* corrective edit succeeds, and when it fails the exception of the
\* corrective edit leaves handle_image.
C3_CorrectiveEditOnceThenPropagates ==
  \A t \in tasks :
    FinalEditFailed(t) =>
      /\ Len(Edits(t)) <= 2
      /\ pc[t] \in {"except"} \cup Terminal
      /\ pc[t] \in Terminal =>
           /\ Len(Edits(t)) = 2
           /\ Edits(t)[2].site = "corrective"
           /\ Edits(t)[2].message_id = sent_message[t]
           /\ Edits(t)[2].chat_id = update[t].chat_id
           /\ Edits(t)[2].reply_markup = None
           /\ SubSeq(Edits(t)[2].text, 1, Len(InternalErrorPrefix))
                = InternalErrorPrefix
           /\ pc[t] = "returned" <=> Edits(t)[2].ok
           /\ pc[t] = "raised" <=> ~Edits(t)[2].ok

\* the final edit and the corrective edit have both failed
C3_Witness ==
  /\ FinalEditFailed(1) /\ pc[1] = "raised"
  /\ Len(Edits(1)) = 2 /\ ~Edits(1)[2].ok

\* the value is the error dict of the except clause: a dict whose error is a
\* non-empty string
IsErrorResult(x) ==
  /\ IsDict(x) /\ "error" \in DOMAIN x.v
  /\ IsStr(x.v["error"]) /\ x.v["error"].v # <<>>

\* C4: analyze_image_with_gemini always returns and never raises; when
\* opening the image fails, when the model client raises, or when the
\* completion is no JSON document, the value returned is a dict whose error
\* is a non-empty string that holds the description (str) of the exception.
C4_AnalyzeNeverRaises ==
  /\ fn_pc # "analysis raised"
  /\ fn_pc = "analysis returned" =>
       /\ ~fn_out.raised
       /\ ImageOpenRaises(fn_in.image_bytes) =>
            /\ IsErrorResult(fn_out.value)
            /\ Occurs(UnidentifiedImageError.msg, fn_out.value.v["error"].v)
       /\ (~ImageOpenRaises(fn_in.image_bytes) /\ fn_in.gemini.e # None) =>
            /\ IsErrorResult(fn_out.value)
            /\ Occurs(fn_in.gemini.e.msg, fn_out.value.v["error"].v)
       /\ (~ImageOpenRaises(fn_in.image_bytes) /\ fn_in.gemini.e = None
             /\ \A i \in 1..Len(fn_in.gemini.text) :
                  fn_in.gemini.text[i].k # "json") =>
            /\ IsErrorResult(fn_out.value)
            /\ fn_out.logged.type = "JSONDecodeError"
            /\ Occurs(fn_out.logged.msg, fn_out.value.v["error"].v)
       /\ fn_out.logged # None =>
            /\ IsErrorResult(fn_out.value)
            /\ Occurs(fn_out.logged.msg, fn_out.value.v["error"].v)

\* the model client has raised an exception with a description, and the
\* analysis has returned
C4_Witness ==
  /\ fn_pc = "analysis returned"
  /\ ~ImageOpenRaises(fn_in.image_bytes)
  /\ fn_in.gemini.e # None /\ fn_in.gemini.e.msg # <<>>
  /\ IsErrorResult(fn_out.value)

HasReserved(s) == \E i \in 1..Len(s) : s[i] \in escape_chars

\* the escaping the documentation and the tests describe: every reserved
\* character behind one backslash, every other character unchanged
RECURSIVE PrefixReserved(_)
PrefixReserved(s) ==
  IF s = <<>> THEN <<>>
  ELSE (IF Head(s) \in escape_chars THEN <<"\\", Head(s)>> ELSE <<Head(s)>>)
       \o PrefixReserved(Tail(s))

\* C9: escape_markdown_v2 replaces every reserved character by that
\* character behind one backslash, copies every other character in order, and
\* returns the empty string for an input that is not a string.
C9_EscapePrefixesReserved ==
  fn_pc = "escaped" =>
    fn_out = (IF IsStr(fn_in) THEN PrefixReserved(fn_in.v) ELSE <<>>)

\* C10: escaping twice differs from escaping once whenever the string holds
\* a reserved character.
C10_EscapeNotIdempotent ==
  (fn_pc = "escaped twice" /\ IsStr(fn_in) /\ HasReserved(fn_in.v)) =>
    fn_out2 # fn_out

\* the key is there and its value is truthy
FieldSet(d, k) == k \in DOMAIN d.v /\ Truthy(d.v[k])

\* gps holds an object (a dict that is not empty)
HasGpsObject(d) ==
  /\ "gps" \in DOMAIN d.v
  /\ d.v["gps"].t = "dict"
  /\ DOMAIN d.v["gps"].v # {}

\* gps holds an object with both coordinates, neither of them null
GpsComplete(d) ==
  /\ HasGpsObject(d)
  /\ \A c \in {"latitude", "longitude"} :
       c \in DOMAIN d.v["gps"].v /\ d.v["gps"].v[c] # None

\* C6: the rendered string never holds the promo part when gps is present
\* (an object), holds it (the promo verbatim between inline-code delimiters)
\* whenever gps is absent and promo is set, and never holds both the promo
\* part and the coordinates part.
C6_PromoOnlyWithoutGps ==
  fn_pc = "rendered" =>
    /\ HasGpsObject(fn_in) => Count(fn_out, IconPromo) = 0
    /\ (~HasGpsObject(fn_in) /\ FieldSet(fn_in, "promo")) =>
         Occurs(<<IconPromo, " ", Backtick>> \o fn_in.v["promo"].v
                  \o <<Backtick>>, fn_out)
    /\ ~(Count(fn_out, IconPromo) > 0 /\ Count(fn_out, IconGps) > 0)

\* gps and promo are both set, and the coordinates part has been rendered
C6_Witness ==
  /\ fn_pc = "rendered"
  /\ HasGpsObject(fn_in) /\ FieldSet(fn_in, "promo")
  /\ Count(fn_out, IconGps) = 1

\* C7: the coordinates part, the address part and the date part are rendered
\* only when gps is an object with both coordinates non-null.
C7_CoordinatesOnlyWhenComplete ==
  fn_pc = "rendered" =>
    ((Count(fn_out, IconGps) > 0 \/ Count(fn_out, IconAddress) > 0
        \/ Count(fn_out, IconDate) > 0)
       => GpsComplete(fn_in))

Icons == {IconMessage, IconError, IconGps, IconAddress, IconDate, IconPromo}

\* the place of a part in the fixed order: promo stands where the coordinates
\* would
IconRank(c) ==
  CASE c = IconMessage -> 1
    [] c = IconError -> 2
    [] c = IconGps -> 3
    [] c = IconPromo -> 3
    [] c = IconAddress -> 4
    [] c = IconDate -> 5

IconPositions(s) == {i \in 1..Len(s) : s[i] \in Icons}

ResultGpsComplete(x) == IsDict(x) /\ GpsComplete(x)

\* C5: a final edit carries a reply_markup exactly when the analysis result
\* has a gps object with latitude and longitude both non-null, and the
\* markup is one row of three buttons with three different links.
C5_ControlsIffGpsComplete ==
  \A t \in tasks :
    \A i \in 1..Len(Edits(t)) :
      Edits(t)[i].site \in {"final", "no answer"} =>
        LET markup == Edits(t)[i].reply_markup
        IN /\ markup # None <=> ResultGpsComplete(analysis_result[t])
           /\ markup # None =>
                /\ Len(markup.rows) = 1
                /\ Len(markup.rows[1]) = 3
                /\ Cardinality({markup.rows[1][j].url : j \in 1..3}) = 3

\* a final edit with a keyboard has been made
C5_Witness ==
  \E i \in 1..Len(Edits(1)) :
    /\ Edits(1)[i].site = "final" /\ Edits(1)[i].ok
    /\ Edits(1)[i].reply_markup # None
    /\ ResultGpsComplete(analysis_result[1])

\* the completion is the JSON document of b on its own, or behind the
\* opening fence, with or without the closing fence
FencedOrBare(text, b) ==
  text \in { <<Json(b)>>, <<FenceOpen, Json(b)>>,
             <<FenceOpen, Json(b), Lit("\n"), FenceClose>> }

\* C11: a completion that holds a JSON object J bare or fenced (with or
\* without the closing fence) is parsed by analyze_image_with_gemini into J.
C11_FencedJsonParses ==
  (fn_pc = "analysis returned" /\ ~ImageOpenRaises(fn_in.image_bytes)
     /\ fn_in.gemini.e = None) =>
    \A b \in ResponseBodies :
      (IsDict(b) /\ FencedOrBare(fn_in.gemini.text, b)) => fn_out.value = b

\* the last call of task t on edit_message_text
LastEdit(t) == Edits(t)[Len(Edits(t))]

\* C12 as stated: whenever the analysis result (a dict) renders to the empty
\* string, the text of the final edit is the escaped fallback message, and
\* no edit has an empty text.
C12_EmptyRenderGivesFallback ==
  \A t \in tasks :
    \A i \in 1..Len(Edits(t)) :
      /\ Edits(t)[i].text # <<>>
      /\ (Edits(t)[i].site \in {"final", "no answer"}
            /\ IsDict(analysis_result[t])
            /\ render_response(analysis_result[t]) = <<>>) =>
           Edits(t)[i].text = FallbackText

\* C12 as amended: no edit has an empty text; when the analysis result is
\* truthy (a dict with at least one key) and renders to the empty string,
\* the text of the final edit is the escaped fallback message; when the
\* result is falsy (the empty dict, null, an empty list or string, zero),
\* the text is the escaped no-answer message instead.
C12_FallbackOrNoAnswer ==
  \A t \in tasks :
    \A i \in 1..Len(Edits(t)) :
      /\ Edits(t)[i].text # <<>>
      /\ Edits(t)[i].site = "final" =>
           /\ IsDict(analysis_result[t]) /\ Truthy(analysis_result[t])
           /\ render_response(analysis_result[t]) = <<>>
                => Edits(t)[i].text = FallbackText
           /\ render_response(analysis_result[t]) # <<>>
                => Edits(t)[i].text = render_response(analysis_result[t])
      /\ Edits(t)[i].site = "no answer" =>
           /\ ~Truthy(analysis_result[t])
           /\ Edits(t)[i].text = NoAnswerText
      /\ (Edits(t)[i].site \in {"final", "no answer"}
            /\ analysis_result[t] = EmptyDict) =>
           Edits(t)[i].text = NoAnswerText

\* a dict whose fields are all null has rendered to the empty string and the
\* final edit carries the fallback message
C12_Witness ==
  /\ pc[1] = "returned" /\ Len(Edits(1)) = 1
  /\ Edits(1)[1].site = "final" /\ Edits(1)[1].text = FallbackText
  /\ IsDict(analysis_result[1]) /\ Truthy(analysis_result[1])

\* the descriptions (str) of the exceptions the external calls raise
FailureDescriptions == {f.msg : f \in {g \in Failures : g.msg # <<>>}}

\* C13 as stated: no text that handle_image writes with edit_message_text
\* holds the description of an exception raised by an external call.
C13_NoRawDescriptionShown ==
  \A t \in tasks :
    \A i \in 1..Len(Edits(t)) :
      \A d \in FailureDescriptions : ~Occurs(d, Edits(t)[i].text)

\* C13 as amended: the texts written for a failure are a fixed prefix
\* followed by the description (str) of the exception, the whole escaped
\* with escape_markdown_v2: the corrective edit shows the internal-error
\* prefix and the description of the exception caught, and the final edit
\* after a failure of the model client shows the error part made of the
\* could-not-process prefix and the description of that failure; a
\* description without reserved characters is shown unchanged.
C13_FailureTextsEmbedDescription ==
  \A t \in tasks :
    /\ (pc[t] = "returned" /\ Len(Edits(t)) >= 1
          /\ LastEdit(t).site = "corrective") =>
         /\ LastEdit(t).text
              = escape_markdown_v2(Str(InternalErrorPrefix \o exc[t].msg))
         /\ ~HasReserved(exc[t].msg) => Occurs(exc[t].msg, LastEdit(t).text)
    /\ (ModelRaisedOnly(t) /\ pc[t] = "returned") =>
         \E f \in Failures :
           /\ LastEdit(t).text
                = <<IconError, " ">>
                    \o escape_markdown_v2(ErrorResult(f).v["error"])
           /\ ~HasReserved(f.msg) => Occurs(f.msg, LastEdit(t).text)

\* the corrective edit has shown the description of a time-out
C13_Witness ==
  /\ pc[1] = "returned" /\ Len(Edits(1)) >= 1
  /\ LastEdit(1).site = "corrective"
  /\ exc[1].msg = <<"Timed out">>
  /\ Occurs(<<"Timed out">>, LastEdit(1).text)

\* the last call task t has made
LastCall(t) == calls[t][Len(calls[t])]

\* terminal state Delivered: handle_image has returned after the final edit
\* (of either branch) was applied to the provisional message
Delivered(t) ==
  /\ pc[t] = "returned" /\ Len(Edits(t)) >= 1
  /\ LastEdit(t).site \in {"final", "no answer"} /\ LastEdit(t).ok

\* terminal state Errored: handle_image has returned after the corrective
\* edit was applied to the provisional message
Errored(t) ==
  /\ pc[t] = "returned" /\ Len(Edits(t)) >= 1
  /\ LastEdit(t).site = "corrective" /\ LastEdit(t).ok

\* an exception has left handle_image: that of the acknowledgment or that of
\* the corrective edit
Escaped(t) ==
  /\ pc[t] = "raised" /\ Len(calls[t]) >= 1
  /\ LastCall(t).site \in {"ack", "corrective"} /\ ~LastCall(t).ok

\* C14 as stated, in the form a finite run refutes: a task on a photo that
\* has come to its end has ended in Delivered or in Errored.
C14_EndsDeliveredOrErrored ==
  \A t \in tasks :
    (update[t].photo # <<>> /\ pc[t] \in Terminal) =>
      (Delivered(t) \/ Errored(t))

\* C14 as amended: when every external call completes or fails, the task
\* comes to its end; a task on a photo ends in exactly one of Delivered,
\* Errored, or with the exception of the acknowledgment or of the corrective
\* edit leaving handle_image; a task that has ended takes no step.
C14_EndsInOneOfThree ==
  /\ <>(pc[1] \in Terminal)
  /\ [](\A t \in tasks :
          (update[t].photo # <<>> /\ pc[t] \in Terminal) =>
            /\ Delivered(t) \/ Errored(t) \/ Escaped(t)
            /\ ~(Delivered(t) /\ Errored(t))
            /\ ~(Delivered(t) /\ Escaped(t))
            /\ ~(Errored(t) /\ Escaped(t)))
  /\ [][pc[1] \notin Terminal]_vars

\* the acknowledgment has failed and its exception has left handle_image
C14_Witness ==
  /\ update[1].photo # <<>> /\ pc[1] = "raised" /\ Escaped(1)
  /\ Len(calls[1]) = 1 /\ calls[1][1].site = "ack"

\* C15: what analyze_image_with_gemini returns to handle_image is a mapping,
\* also when the completion is JSON that is not an object, so that a run in
\* which no call fails never enters the except clause.
C15_ResultIsMapping ==
  \A t \in tasks :
    AllOk(t) =>
      /\ pc[t] # "except"
      /\ pc[t] \in {"analyzed", "edit", "edit no answer"}
           => IsDict(analysis_result[t])

\* C16: while gps holds no object, the rendered string has no address part
\* and no date part, whatever address and date hold; an address or date
\* part stands only after a coordinates part.
C16_AddressDateOnlyUnderGps ==
  fn_pc = "rendered" =>
    /\ ~HasGpsObject(fn_in) =>
         Count(fn_out, IconAddress) = 0 /\ Count(fn_out, IconDate) = 0
    /\ \A i \in 1..Len(fn_out) :
         fn_out[i] \in {IconAddress, IconDate} =>
           \E j \in 1..(i - 1) : fn_out[j] = IconGps

\* address and date are set, gps is not, and neither part was rendered
C16_Witness ==
  /\ fn_pc = "rendered" /\ ~HasGpsObject(fn_in)
  /\ FieldSet(fn_in, "address") /\ FieldSet(fn_in, "date")
  /\ FieldSet(fn_in, "message")
  /\ fn_out # <<>> /\ Count(fn_out, IconAddress) = 0

\* the place of a call in the order of the steps of handle_image
OpRank(c) ==
  CASE c.op = "reply_text" -> 1
    [] c.op = "get_file" -> 2
    [] c.op = "download_as_bytearray" -> 3
    [] c.op = "analyze_image_with_gemini" -> 4
    [] c.op = "generate_content_async" -> 5
    [] c.op = "edit_message_text" -> 6

\* C17: the calls of one run are made in the order acknowledge, get_file,
\* download, analyze (with the model call inside), edit, each at most once:
\* nothing is called before the acknowledgment has returned, an edit is
\* made only after the analysis has returned or after a call has raised,
\* and a second edit only as the corrective edit after a failed edit.
C17_StepsInOrder ==
  \A t \in tasks :
    \A i \in 1..Len(calls[t]) :
      /\ \A j \in 1..(i - 1) :
           \/ OpRank(calls[t][j]) < OpRank(calls[t][i])
           \/ /\ calls[t][j].op = "edit_message_text" /\ ~calls[t][j].ok
              /\ calls[t][i].op = "edit_message_text"
              /\ calls[t][i].site = "corrective"
      /\ i > 1 => calls[t][1].site = "ack" /\ calls[t][1].ok
      /\ calls[t][i].op = "edit_message_text" =>
           \/ \E j \in 1..(i - 1) : ~calls[t][j].ok
           \/ \E j \in 1..(i - 1) :
                /\ calls[t][j].op = "analyze_image_with_gemini"
                /\ \/ ImageOpenRaises(file_bytes[t])
                   \/ \E k \in (j + 1)..(i - 1) :
                        calls[t][k].op = "generate_content_async"

\* a run without failure: the six calls, in order
C17_Witness ==
  /\ pc[1] = "returned" /\ AllOk(1) /\ Len(calls[1]) = 6
  /\ calls[1][3].op = "download_as_bytearray"
  /\ calls[1][6].op = "edit_message_text"

\* the provisional message of task t
Own(t) == <<update[t].chat_id, sent_message[t]>>

\* the successful edits of task t
OkEdits(t) == SelectSeq(Edits(t), LAMBDA c : c.ok)

\* C18: under every interleaving of two tasks, every edit of a task is
\* aimed at the provisional message the task created itself, the final edit
\* carries the text and the keyboard made from the task's own analysis
\* result, the provisional messages of the tasks differ, and each holds
\* what its own task wrote last: the text and controls of its last
\* successful edit, or the acknowledgment when no edit has succeeded.
C18_TasksDoNotInterfere ==
  \A t \in tasks :
    /\ \A i \in 1..Len(Edits(t)) :
         /\ Edits(t)[i].chat_id = update[t].chat_id
         /\ Edits(t)[i].message_id = sent_message[t]
         /\ Own(t) \in CreatedBy(t)
         /\ Edits(t)[i].site = "final" =>
              /\ Edits(t)[i].text
                   = (IF render_response(analysis_result[t]) # <<>>
                      THEN render_response(analysis_result[t])
                      ELSE FallbackText)
              /\ Edits(t)[i].reply_markup = BuildKeyboard(analysis_result[t])
         /\ Edits(t)[i].site # "final" => Edits(t)[i].reply_markup = None
    /\ sent_message[t] # 0 =>
         /\ Own(t) \in DOMAIN messages
         /\ messages[Own(t)].by = t
         /\ messages[Own(t)].reply_to = update[t].message_id
         /\ \A u \in tasks \ {t} : sent_message[u] # 0 => Own(u) # Own(t)
         /\ IF OkEdits(t) = <<>>
            THEN /\ messages[Own(t)].text = AckText
                 /\ messages[Own(t)].reply_markup = None
            ELSE /\ messages[Own(t)].text = OkEdits(t)[Len(OkEdits(t))].text
                 /\ messages[Own(t)].reply_markup
                      = OkEdits(t)[Len(OkEdits(t))].reply_markup

\* two tasks of one chat have both delivered, different contents
C18_Witness ==
  /\ tasks = {1, 2} /\ update[1].chat_id = update[2].chat_id
  /\ Delivered(1) /\ Delivered(2)
  /\ messages[Own(1)].text # messages[Own(2)].text
  /\ messages[Own(1)].reply_markup # None
  /\ messages[Own(2)].reply_markup = None

\* the number of inline-code delimiters of s before place i
DelimitersBefore(s, i) == Cardinality({j \in 1..(i - 1) : s[j] = Backtick})

\* the parts of the rendered string that hold a field verbatim
VerbatimParts(s) ==
  Count(s, IconGps) + Count(s, IconAddress) + Count(s, IconDate)
    + Count(s, IconPromo)

\* C19: the rendered string is well-formed markup: there is one pair of
\* inline-code delimiters for each verbatim part and no other delimiter, and
\* every reserved character outside the inline-code spans follows an escape
\* marker, whatever characters the verbatim fields hold.
C19_WellFormedMarkup ==
  fn_pc = "rendered" =>
    /\ Count(fn_out, Backtick) = 2 * VerbatimParts(fn_out)
    /\ \A i \in 1..Len(fn_out) :
         (fn_out[i] \in escape_chars \ {Backtick}
            /\ DelimitersBefore(fn_out, i) % 2 = 0) =>
           (i > 1 /\ fn_out[i - 1] = "\\")

====
